---- MODULE Spec2Model ----
(***************************************************************************)
(* Model of televideo-term's content client (src/src/client.rs):           *)
(* TelevideoClient with its two TTL caches, fetch_page, fetch_image,       *)
(* clear_cache and the text extraction of parse_html; and of its host      *)
(* (src/src/main.rs): App, load_page and the key handlers of run_app.      *)
(*                                                                         *)
(* Time is in whole seconds.  SystemTime is the wall clock: it can be set  *)
(* back, which is why SystemTime::elapsed() returns a Result and the code  *)
(* supplies unwrap_or(301 s).                                              *)
(***************************************************************************)
EXTENDS Integers, Sequences, FiniteSets, TLC

VARIABLES client, now, last, fetched, app, pc

vars == <<client, now, last, fetched, app, pc>>

(***************************************************************************)
(* Program constants                                                       *)
(***************************************************************************)
base_url == "https://www.servizitelevideo.rai.it/televideo/pub/solotesto.jsp"
image_base_url == "http://www.televideo.rai.it/televideo/pub/tt4web/Nazionale"

\* Duration::from_secs(300): the cache expiry
TTL == 300
\* Duration::from_secs(301): what elapsed() is replaced by when it fails
ElapsedFallback == 301

start_marker == "<!-- SOLOTESTO PAGINA E SOTTOPAGINA -->"
end_marker == "<!-- /SOLOTESTO PAGINA E SOTTOPAGINA -->"
Placeholder == "(No content found on this page)"

\* page range the event loop enforces (main.rs)
PageMin == 100
PageMax == 899

(***************************************************************************)
(* Bounds of the model                                                     *)
(***************************************************************************)
\* the latest instant of the cache model
MaxNow == 599
\* longest document (in tokens) the extraction model is given
MaxDocLen == 4
\* sub-pages 0..MaxUrlSub of the URL model
MaxUrlSub == 3

(***************************************************************************)
(* Results: anyhow::Result<T>                                              *)
(***************************************************************************)
Ok(v) == [ok |-> TRUE, value |-> v]
\* an anyhow error: the format string of bail!/context, its arguments, and
\* whether it wraps an underlying cause (context) or not (bail!)
Err(fmt, args, wraps) == [ok |-> FALSE, fmt |-> fmt, args |-> args, wraps |-> wraps]

(***************************************************************************)
(* Formatting: Display of u16 ({}), and chrono's %H:%M:%S                  *)
(***************************************************************************)
Digit(d) == CASE d = 0 -> "0" [] d = 1 -> "1" [] d = 2 -> "2" [] d = 3 -> "3"
              [] d = 4 -> "4" [] d = 5 -> "5" [] d = 6 -> "6" [] d = 7 -> "7"
              [] d = 8 -> "8" [] d = 9 -> "9"

RECURSIVE Dec(_)
Dec(n) == IF n < 10 THEN Digit(n) ELSE Dec(n \div 10) \o Digit(n % 10)

Pad2(n) == Digit((n \div 10) % 10) \o Digit(n % 10)

\* chrono::Local::now().format("%H:%M:%S"), local offset taken as 0
FormatHMS(t) ==
    Pad2((t \div 3600) % 24) \o ":" \o Pad2((t \div 60) % 60) \o ":" \o Pad2(t % 60)

(***************************************************************************)
(* Cache freshness (client.rs:38 and :128)                                 *)
(***************************************************************************)
\* SystemTime::elapsed(): Err when the clock is before `time`
Elapsed(time, clock) ==
    IF clock >= time THEN Ok(clock - time) ELSE Err("SystemTimeError", <<>>, FALSE)

\* .unwrap_or(Duration::from_secs(301))
ElapsedOr(time, clock) ==
    LET e == Elapsed(time, clock) IN IF e.ok THEN e.value ELSE ElapsedFallback

\* mutants of IsFresh: an expiry of one minute; an expiry one second late
IsFresh_minute(time, clock) == ElapsedOr(time, clock) < 60
IsFresh_inclusive(time, clock) == ElapsedOr(time, clock) <= TTL

IsFresh(time, clock) == ElapsedOr(time, clock) < TTL

\* mutant of Insert: an entry the key already has is kept
Insert_orInsert(map, k, v) ==
    [x \in (DOMAIN map) \cup {k} |-> IF x \in DOMAIN map THEN map[x] ELSE v]

\* HashMap::insert: add or replace the entry of key k
Insert(map, k, v) == [x \in (DOMAIN map) \cup {k} |-> IF x = k THEN v ELSE map[x]]

\* HashMap::new() / HashMap::clear()
EmptyMap == [x \in {} |-> 0]

(***************************************************************************)
(* Text extraction: parse_html (client.rs:70-121)                          *)
(*                                                                         *)
(* A document is a sequence of tokens: the two marker comments, the tags   *)
(* <pre>, </pre>, <a href="u">, </a>, and text characters ("\n" and "\r"   *)
(* among them).  A parsed fragment is the token sequence of its            *)
(* serialisation.                                                          *)
(***************************************************************************)
PreOpen == "<pre>"
PreClose == "</pre>"
AOpen == "<a href=\"u\">"
AClose == "</a>"
LF == "\n"
CR == "\r"

Markup == {start_marker, end_marker, PreOpen, PreClose, AOpen, AClose}
IsChar(t) == t \notin Markup

\* str::find on tokens: the first index >= from holding tok, 0 for None
RECURSIVE Find(_, _, _)
Find(s, tok, from) ==
    IF from > Len(s) THEN 0
    ELSE IF s[from] = tok THEN from
    ELSE Find(s, tok, from + 1)

\* mutant of ContentSection: without an end marker, the document from the
\* start marker on
ContentSection_toEnd(html) ==
    LET start_pos == Find(html, start_marker, 1) IN
    IF start_pos # 0
    THEN LET content_start == start_pos + 1
             end_pos == Find(html, end_marker, content_start)
         IN  IF end_pos # 0
             THEN SubSeq(html, content_start, end_pos - 1)
             ELSE SubSeq(html, content_start, Len(html))
    ELSE html

\* client.rs:75-84
ContentSection(html) ==
    LET start_pos == Find(html, start_marker, 1) IN
    IF start_pos # 0
    THEN LET content_start == start_pos + 1
             end_pos == Find(html, end_marker, content_start)
         IN  IF end_pos # 0
             THEN SubSeq(html, content_start, end_pos - 1)
             ELSE html
    ELSE html

\* Html::parse_fragment, as far as <pre> and text go: a line feed right
\* after a <pre> start tag is dropped, an end tag with no open <pre> is
\* ignored, and the <pre> elements still open at the end are closed.
\* Anchors are kept as written (they hold no text of their own).
RECURSIVE Build(_, _, _)
Build(toks, depth, afterPre) ==
    IF toks = <<>> THEN [i \in 1..depth |-> PreClose]
    ELSE LET t == Head(toks)
             r == Tail(toks)
         IN  CASE t = PreOpen -> <<t>> \o Build(r, depth + 1, TRUE)
               [] t = PreClose -> IF depth > 0
                                  THEN <<t>> \o Build(r, depth - 1, FALSE)
                                  ELSE Build(r, depth, FALSE)
               [] t = LF /\ afterPre -> Build(r, depth, FALSE)
               [] OTHER -> <<t>> \o Build(r, depth, FALSE)

ParseFragment(toks) == Build(toks, 0, FALSE)

\* index of the end tag closing the <pre> opened before position i
RECURSIVE MatchClose(_, _, _)
MatchClose(doc, i, depth) ==
    IF doc[i] = PreClose
    THEN IF depth = 1 THEN i ELSE MatchClose(doc, i + 1, depth - 1)
    ELSE IF doc[i] = PreOpen THEN MatchClose(doc, i + 1, depth + 1)
    ELSE MatchClose(doc, i + 1, depth)

\* document.select(&pre_selector).next() and .html(): the serialisation of
\* the first <pre> element, <<>> for None
PreElementHtml(document) ==
    LET i == Find(document, PreOpen, 1) IN
    IF i = 0 THEN <<>> ELSE SubSeq(document, i, MatchClose(document, i + 1, 1))

\* number of text characters at the head of toks
RECURSIVE CharRun(_)
CharRun(toks) ==
    IF toks # <<>> /\ IsChar(Head(toks)) THEN 1 + CharRun(Tail(toks)) ELSE 0

\* link_regex.replace_all(&pre_html, "$1") for <a href="[^"]*">([^<]+)</a>
RECURSIVE LinkRewrite(_)
LinkRewrite(toks) ==
    IF toks = <<>> THEN <<>>
    ELSE IF Head(toks) = AOpen
    THEN LET n == CharRun(Tail(toks)) IN
         IF n >= 1 /\ Len(toks) >= n + 2 /\ toks[n + 2] = AClose
         THEN SubSeq(toks, 2, n + 1) \o LinkRewrite(SubSeq(toks, n + 3, Len(toks)))
         ELSE <<AOpen>> \o LinkRewrite(Tail(toks))
    ELSE <<Head(toks)>> \o LinkRewrite(Tail(toks))

\* clean_doc.root_element().text().collect::<String>()
TextContent(doc) == SelectSeq(doc, IsChar)

\* a String from its characters
RECURSIVE Str(_)
Str(cs) == IF cs = <<>> THEN "" ELSE Head(cs) \o Str(Tail(cs))

\* the pieces of text between line feeds, the last one included
RECURSIVE Split(_, _)
Split(text, cur) ==
    IF text = <<>> THEN <<cur>>
    ELSE IF Head(text) = LF THEN <<cur>> \o Split(Tail(text), <<>>)
    ELSE Split(Tail(text), Append(cur, Head(text)))

\* a line without its line ending: a "\r" before the "\n" goes too
StripCR(seg) ==
    IF seg # <<>> /\ seg[Len(seg)] = CR THEN SubSeq(seg, 1, Len(seg) - 1) ELSE seg

\* str::lines(): split at "\n"; a final empty piece is no line
Lines(text) ==
    LET segs == Split(text, <<>>)
        n == Len(segs)
        kept == IF segs[n] = <<>> THEN SubSeq(segs, 1, n - 1) ELSE segs
    IN  [i \in 1..Len(kept) |->
            Str(IF i < n THEN StripCR(kept[i]) ELSE kept[i])]

\* client.rs:91-109: the lines of the first <pre> block, none without one
ExtractLines(content_section) ==
    LET document == ParseFragment(content_section)
        pre_html == PreElementHtml(document)
    IN  IF pre_html # <<>>
        THEN LET cleaned == LinkRewrite(pre_html)
                 clean_doc == ParseFragment(cleaned)
                 text_content == TextContent(clean_doc)
             IN  Lines(text_content)
        ELSE <<>>

\* mutant of OrPlaceholder: no placeholder
OrPlaceholder_none(lines) == lines

\* client.rs:111-113
OrPlaceholder(lines) == IF lines = <<>> THEN <<Placeholder>> ELSE lines

\* TelevideoClient::parse_html; clock is the local time it is called at
ParseHtml(html, page, sub_page, clock) ==
    LET content_section == ContentSection(html)
        lines == OrPlaceholder(ExtractLines(content_section))
    IN  Ok([page_number |-> page,
            sub_page |-> sub_page,
            lines |-> lines,
            timestamp |-> FormatHMS(clock)])

(***************************************************************************)
(* The network: what reqwest::blocking::get(&url) and the reads of the     *)
(* response give.  sent: the request got a response; status: its status    *)
(* code; readable: text()/bytes() succeeds; body: tokens or bytes.         *)
(***************************************************************************)
Response(sent, status, readable, body) ==
    [sent |-> sent, status |-> status, readable |-> readable, body |-> body]

TransportFailure == Response(FALSE, 0, FALSE, <<>>)
\* the value of last.resp when a call used no response
NoResponse == TransportFailure

\* mutant of IsSuccess: no upper end
IsSuccess_open(status) == 200 <= status

\* StatusCode::is_success(): 200..=299
IsSuccess(status) == 200 <= status /\ status <= 299

\* image::load_from_memory: bytes that begin with the PNG signature decode
LoadFromMemory(bytes) ==
    IF bytes # <<>> /\ Head(bytes) = "PNG"
    THEN Ok([pixels |-> Tail(bytes)])
    ELSE Err("Format error decoding image", <<>>, FALSE)

(***************************************************************************)
(* TelevideoClient                                                         *)
(***************************************************************************)
\* TelevideoClient::new (client.rs:24-31)
NewClient == [cache |-> EmptyMap, image_cache |-> EmptyMap]

\* mutant of TextUrl: the sub-page parameter from sub-page 1 on
TextUrl_fromOne(page, sub_page) ==
    IF sub_page >= 1
    THEN base_url \o "?pagina=" \o Dec(page) \o "&sottopagina=" \o Dec(sub_page)
    ELSE base_url \o "?pagina=" \o Dec(page)

\* client.rs:44-48
TextUrl(page, sub_page) ==
    IF sub_page > 1
    THEN base_url \o "?pagina=" \o Dec(page) \o "&sottopagina=" \o Dec(sub_page)
    ELSE base_url \o "?pagina=" \o Dec(page)

\* client.rs:134-138
ImageUrl(page, sub_page) ==
    IF sub_page > 1
    THEN image_base_url \o "/16_9_page-" \o Dec(page) \o "." \o Dec(sub_page) \o ".png"
    ELSE image_base_url \o "/16_9_page-" \o Dec(page) \o ".png"

\* what a call gives: the client afterwards, the returned Result, the URLs
\* requested, and the steps of the handler that ran
Outcome(self, ret, requests, steps) ==
    [self |-> self, ret |-> ret, requests |-> requests, steps |-> steps]

\* fetch_page from the URL on (client.rs:43-67): no fresh entry was found
FetchPageMiss(self, clock, page, sub_page, resp) ==
    LET cache_key == <<page, sub_page>>
        url == TextUrl(page, sub_page)
    IN  IF ~resp.sent
        THEN Outcome(self, Err("Failed to fetch page", <<>>, TRUE), <<url>>, <<"get">>)
        ELSE IF ~IsSuccess(resp.status)
        THEN Outcome(self, Err("Page {}.{} not found", <<page, sub_page>>, FALSE),
                     <<url>>, <<"get", "status">>)
        ELSE IF ~resp.readable
        THEN Outcome(self, Err("Failed to read response", <<>>, TRUE),
                     <<url>>, <<"get", "status", "text">>)
        ELSE LET televideo_page == ParseHtml(resp.body, page, sub_page, clock) IN
             IF ~televideo_page.ok
             THEN Outcome(self, televideo_page, <<url>>,
                          <<"get", "status", "text", "parse_html">>)
             ELSE Outcome([self EXCEPT !.cache =
                              Insert(@, cache_key,
                                     [data |-> televideo_page.value, time |-> clock])],
                          Ok(televideo_page.value), <<url>>,
                          <<"get", "status", "text", "parse_html", "insert">>)

\* a map without the entry of key k
Without(map, k) == [x \in (DOMAIN map) \ {k} |-> map[x]]

\* mutant of FetchPageCall: an expired entry is dropped when it is found
FetchPageCall_evict(self, clock, page, sub_page, resp) ==
    LET cache_key == <<page, sub_page>> IN
    IF cache_key \in DOMAIN self.cache /\ IsFresh(self.cache[cache_key].time, clock)
    THEN Outcome(self, Ok(self.cache[cache_key].data), <<>>, <<>>)
    ELSE FetchPageMiss([self EXCEPT !.cache = Without(@, cache_key)],
                       clock, page, sub_page, resp)

\* mutant of FetchPageCall: a refetch of the text drops the key's image
FetchPageCall_dropImage(self, clock, page, sub_page, resp) ==
    LET cache_key == <<page, sub_page>> IN
    IF cache_key \in DOMAIN self.cache /\ IsFresh(self.cache[cache_key].time, clock)
    THEN Outcome(self, Ok(self.cache[cache_key].data), <<>>, <<>>)
    ELSE FetchPageMiss([self EXCEPT !.image_cache = Without(@, cache_key)],
                       clock, page, sub_page, resp)

\* TelevideoClient::fetch_page (client.rs:33-68)
FetchPageCall(self, clock, page, sub_page, resp) ==
    LET cache_key == <<page, sub_page>> IN
    IF cache_key \in DOMAIN self.cache /\ IsFresh(self.cache[cache_key].time, clock)
    THEN Outcome(self, Ok(self.cache[cache_key].data), <<>>, <<>>)
    ELSE FetchPageMiss(self, clock, page, sub_page, resp)

\* fetch_image from the URL on (client.rs:133-158)
FetchImageMiss(self, clock, page, sub_page, resp) ==
    LET cache_key == <<page, sub_page>>
        url == ImageUrl(page, sub_page)
    IN  IF ~resp.sent
        THEN Outcome(self, Err("Failed to fetch image", <<>>, TRUE), <<url>>, <<"get">>)
        ELSE IF ~IsSuccess(resp.status)
        THEN Outcome(self, Err("Image for page {}.{} not found", <<page, sub_page>>, FALSE),
                     <<url>>, <<"get", "status">>)
        ELSE IF ~resp.readable
        THEN Outcome(self, Err("Failed to read image response", <<>>, TRUE),
                     <<url>>, <<"get", "status", "bytes">>)
        ELSE LET img == LoadFromMemory(resp.body) IN
             IF ~img.ok
             THEN Outcome(self, Err("Failed to decode image", <<>>, TRUE), <<url>>,
                          <<"get", "status", "bytes", "load_from_memory">>)
             ELSE Outcome([self EXCEPT !.image_cache =
                              Insert(@, cache_key, [data |-> img.value, time |-> clock])],
                          Ok(img.value), <<url>>,
                          <<"get", "status", "bytes", "load_from_memory", "insert">>)

\* mutant of FetchImageCall: an expired entry is dropped when it is found
FetchImageCall_evict(self, clock, page, sub_page, resp) ==
    LET cache_key == <<page, sub_page>> IN
    IF cache_key \in DOMAIN self.image_cache
       /\ IsFresh(self.image_cache[cache_key].time, clock)
    THEN Outcome(self, Ok(self.image_cache[cache_key].data), <<>>, <<>>)
    ELSE FetchImageMiss([self EXCEPT !.image_cache = Without(@, cache_key)],
                        clock, page, sub_page, resp)

\* a map without its expired entries
Sweep(map, clock) ==
    [x \in {k \in DOMAIN map : IsFresh(map[k].time, clock)} |-> map[x]]

\* mutant of FetchImageCall: a call that goes to the network first sweeps
\* the expired entries out of the cache
FetchImageCall_sweep(self, clock, page, sub_page, resp) ==
    LET cache_key == <<page, sub_page>> IN
    IF cache_key \in DOMAIN self.image_cache
       /\ IsFresh(self.image_cache[cache_key].time, clock)
    THEN Outcome(self, Ok(self.image_cache[cache_key].data), <<>>, <<>>)
    ELSE FetchImageMiss([self EXCEPT !.image_cache = Sweep(@, clock)],
                        clock, page, sub_page, resp)

\* mutant of FetchImageCall: a failed request is tried once more
FetchImageCall_retry(self, clock, page, sub_page, resp) ==
    LET cache_key == <<page, sub_page>> IN
    IF cache_key \in DOMAIN self.image_cache
       /\ IsFresh(self.image_cache[cache_key].time, clock)
    THEN Outcome(self, Ok(self.image_cache[cache_key].data), <<>>, <<>>)
    ELSE LET o == FetchImageMiss(self, clock, page, sub_page, resp) IN
         IF o.ret.ok THEN o ELSE [o EXCEPT !.requests = @ \o @]

\* TelevideoClient::fetch_image (client.rs:123-159)
FetchImageCall(self, clock, page, sub_page, resp) ==
    LET cache_key == <<page, sub_page>> IN
    IF cache_key \in DOMAIN self.image_cache
       /\ IsFresh(self.image_cache[cache_key].time, clock)
    THEN Outcome(self, Ok(self.image_cache[cache_key].data), <<>>, <<>>)
    ELSE FetchImageMiss(self, clock, page, sub_page, resp)

\* mutant of ClearCacheCall: only a text cache that has entries is cleared,
\* the image cache with it
ClearCacheCall_ifText(self) ==
    IF self.cache # EmptyMap
    THEN [self EXCEPT !.cache = EmptyMap, !.image_cache = EmptyMap]
    ELSE self

\* mutant of ClearCacheCall: the image cache is forgotten
ClearCacheCall_textOnly(self) == [self EXCEPT !.cache = EmptyMap]

\* TelevideoClient::clear_cache (client.rs:161-164)
ClearCacheCall(self) == [self EXCEPT !.cache = EmptyMap, !.image_cache = EmptyMap]

(***************************************************************************)
(* The host: App, load_page and the key handlers of run_app (main.rs).     *)
(* The event loop draws a frame, then handles at most one key; a handler   *)
(* runs to its end before the next frame is drawn, so the frame shows the  *)
(* App as the handler left it.                                             *)
(***************************************************************************)
\* Option<T>
None == [some |-> FALSE]
Some(v) == [some |-> TRUE, value |-> v]

\* u16::MAX: current_page, current_part and the entered number are u16
U16Max == 65535

\* App::new_with_picker (main.rs:42-56); the client is the variable `client`
NewApp ==
    [current_page |-> 100,
     current_part |-> 1,
     page_input_buffer |-> <<>>,
     content |-> None,
     image_state |-> None,
     error |-> None,
     message |-> None,
     loading |-> FALSE,
     display_mode |-> "Text"]

\* Display of an anyhow error ({}): its outermost message
ErrDisplay(e) ==
    CASE e.fmt = "Page {}.{} not found" ->
            "Page " \o Dec(e.args[1]) \o "." \o Dec(e.args[2]) \o " not found"
      [] e.fmt = "Image for page {}.{} not found" ->
            "Image for page " \o Dec(e.args[1]) \o "." \o Dec(e.args[2]) \o " not found"
      [] OTHER -> e.fmt

\* picker.new_resize_protocol(img): the protocol state of an image
NewResizeProtocol(img) == [source |-> img]

\* what a call of the client by load_page was: its arguments, what it
\* returned and the URLs it requested
ClientCall(op, page, sub_page, o) ==
    [op |-> op, page |-> page, sub_page |-> sub_page,
     ret |-> o.ret, requests |-> o.requests]

\* what a handler gives: the App and the client afterwards, the load_page
\* call it made (none: called FALSE) with its calls of the client, and
\* whether it called clear_cache
NoLoad == [called |-> FALSE, page |-> 0, part |-> 0, calls |-> <<>>]

Handled(self, cl, load, cleared) ==
    [app |-> self, client |-> cl, load |-> load, cleared |-> cleared]

\* mutant of LoadPageImage: a failure of the image fetch is not reported
LoadPageImage_quiet(s1, page, part, text_result, image_result) ==
    LET s2 == IF image_result.ret.ok
              THEN [s1 EXCEPT !.image_state =
                                 Some(NewResizeProtocol(image_result.ret.value))]
              ELSE s1
    IN  Handled([s2 EXCEPT !.current_page = page,
                           !.current_part = part,
                           !.loading = FALSE],
                image_result.self,
                [called |-> TRUE, page |-> page, part |-> part,
                 calls |-> <<ClientCall("fetch_page", page, part, text_result),
                             ClientCall("fetch_image", page, part, image_result)>>],
                FALSE)

\* load_page from the match on image_result on (main.rs:76-92): s1 is the
\* App after the text fetch
LoadPageImage(s1, page, part, text_result, image_result) ==
    LET s2 == IF image_result.ret.ok
              THEN [s1 EXCEPT !.image_state =
                                 Some(NewResizeProtocol(image_result.ret.value))]
              ELSE IF s1.error = None
              THEN [s1 EXCEPT !.error = Some("Image: " \o ErrDisplay(image_result.ret))]
              ELSE s1
    IN  Handled([s2 EXCEPT !.current_page = page,
                           !.current_part = part,
                           !.loading = FALSE],
                image_result.self,
                [called |-> TRUE, page |-> page, part |-> part,
                 calls |-> <<ClientCall("fetch_page", page, part, text_result),
                             ClientCall("fetch_image", page, part, image_result)>>],
                FALSE)

\* mutant of LoadPageText: when the text fetch fails the image is not
\* fetched
LoadPageText_skipImage(s0, cl, clock, page, part, ri, text_result) ==
    IF text_result.ret.ok
    THEN LoadPageImage([s0 EXCEPT !.content = Some(text_result.ret.value)],
                       page, part, text_result,
                       FetchImageCall(text_result.self, clock, page, part, ri))
    ELSE Handled([s0 EXCEPT !.error = Some("Text: " \o ErrDisplay(text_result.ret)),
                            !.current_page = page,
                            !.current_part = part,
                            !.loading = FALSE],
                 text_result.self,
                 [called |-> TRUE, page |-> page, part |-> part,
                  calls |-> <<ClientCall("fetch_page", page, part, text_result)>>],
                 FALSE)

\* load_page from the match on text_result on (main.rs:65-92): s0 is the
\* App after the resets, ri the response the network has for the image
\* request
LoadPageText(s0, cl, clock, page, part, ri, text_result) ==
    LoadPageImage(IF text_result.ret.ok
                  THEN [s0 EXCEPT !.content = Some(text_result.ret.value)]
                  ELSE [s0 EXCEPT !.error =
                                     Some("Text: " \o ErrDisplay(text_result.ret))],
                  page, part, text_result,
                  FetchImageCall(text_result.self, clock, page, part, ri))

\* App::load_page (main.rs:58-92); rt and ri are the responses the network
\* has for the text request and for the image request
LoadPage(self, cl, clock, page, part, rt, ri) ==
    LoadPageText([self EXCEPT !.loading = TRUE, !.error = None, !.message = None],
                 cl, clock, page, part, ri,
                 FetchPageCall(cl, clock, page, part, rt))

\* KeyCode::Char('c') without Control (main.rs:141-145)
OnKeyC(self, cl, clock, rt, ri) ==
    LET cleared == ClearCacheCall(cl)
        s0 == [self EXCEPT !.message = Some("Cache cleared!")]
        r == LoadPage(s0, cleared, clock, s0.current_page, s0.current_part, rt, ri)
    IN  [r EXCEPT !.cleared = TRUE]

\* KeyCode::Left (main.rs:152-156)
OnKeyLeft(self, cl, clock, rt, ri) ==
    IF self.current_page > 100
    THEN LoadPage(self, cl, clock, self.current_page - 1, 1, rt, ri)
    ELSE Handled(self, cl, NoLoad, FALSE)

\* KeyCode::Right (main.rs:157-161)
OnKeyRight(self, cl, clock, rt, ri) ==
    IF self.current_page < 899
    THEN LoadPage(self, cl, clock, self.current_page + 1, 1, rt, ri)
    ELSE Handled(self, cl, NoLoad, FALSE)

\* KeyCode::Up (main.rs:162-166)
OnKeyUp(self, cl, clock, rt, ri) ==
    IF self.current_part > 1
    THEN LoadPage(self, cl, clock, self.current_page, self.current_part - 1, rt, ri)
    ELSE Handled(self, cl, NoLoad, FALSE)

\* current_part + 1 on u16 overflows at u16::MAX: a build with overflow
\* checks panics there, a build without them wraps to 0
AddOverflows(part) == part + 1 > U16Max

\* KeyCode::Down (main.rs:167-169), when the addition does not panic
OnKeyDown(self, cl, clock, rt, ri) ==
    LoadPage(self, cl, clock, self.current_page,
             (self.current_part + 1) % (U16Max + 1), rt, ri)

\* the value of a decimal digit character
DigitOf(c) == CHOOSE d \in 0..9 : Digit(d) = c

RECURSIVE DigitsValue(_)
DigitsValue(buf) ==
    IF buf = <<>> THEN 0
    ELSE DigitsValue(SubSeq(buf, 1, Len(buf) - 1)) * 10 + DigitOf(buf[Len(buf)])

\* str::parse::<u16>() of a string of decimal digits
ParseU16(buf) ==
    IF buf = <<>> THEN Err("cannot parse integer from empty string", <<>>, FALSE)
    ELSE IF DigitsValue(buf) > U16Max
    THEN Err("number too large to fit in target type", <<>>, FALSE)
    ELSE Ok(DigitsValue(buf))

\* KeyCode::Char(c) if c.is_ascii_digit() (main.rs:170-172)
OnKeyDigit(self, cl, c) ==
    Handled([self EXCEPT !.page_input_buffer = Append(@, c)], cl, NoLoad, FALSE)

\* mutant of OnKeyEnter: the entered page is checked against 100 only
OnKeyEnter_noUpper(self, cl, clock, rt, ri) ==
    IF self.page_input_buffer # <<>>
    THEN LET parsed == ParseU16(self.page_input_buffer)
             r == IF parsed.ok
                  THEN IF 100 <= parsed.value
                       THEN LoadPage(self, cl, clock, parsed.value, 1, rt, ri)
                       ELSE Handled([self EXCEPT !.message =
                                        Some("Page must be between 100-899")],
                                    cl, NoLoad, FALSE)
                  ELSE Handled(self, cl, NoLoad, FALSE)
         IN  [r EXCEPT !.app.page_input_buffer = <<>>]
    ELSE Handled(self, cl, NoLoad, FALSE)

\* KeyCode::Enter (main.rs:173-184)
OnKeyEnter(self, cl, clock, rt, ri) ==
    IF self.page_input_buffer # <<>>
    THEN LET parsed == ParseU16(self.page_input_buffer)
             r == IF parsed.ok
                  THEN IF 100 <= parsed.value /\ parsed.value <= 899
                       THEN LoadPage(self, cl, clock, parsed.value, 1, rt, ri)
                       ELSE Handled([self EXCEPT !.message =
                                        Some("Page must be between 100-899")],
                                    cl, NoLoad, FALSE)
                  ELSE Handled(self, cl, NoLoad, FALSE)
         IN  [r EXCEPT !.app.page_input_buffer = <<>>]
    ELSE Handled(self, cl, NoLoad, FALSE)

\* KeyCode::Backspace (main.rs:185-187): String::pop
OnKeyBackspace(self, cl) ==
    Handled([self EXCEPT !.page_input_buffer =
                IF @ = <<>> THEN @ ELSE SubSeq(@, 1, Len(@) - 1)],
            cl, NoLoad, FALSE)

\* KeyCode::Esc (main.rs:188-190)
OnKeyEsc(self, cl) ==
    Handled([self EXCEPT !.page_input_buffer = <<>>], cl, NoLoad, FALSE)

\* ui (main.rs:198-310): the header, its right side and the footer of the
\* frame drawn for an App (the arrows of the help line spelled out)
HeaderText(self) ==
    "  TELEVIDEO RAI - Page " \o Dec(self.current_page)
       \o (IF self.current_part > 1 THEN "." \o Dec(self.current_part) ELSE "")

HeaderRight(self) ==
    IF self.error.some THEN "ERROR: " \o self.error.value \o "  "
    ELSE IF self.loading THEN "Loading...  "
    ELSE ""

FooterText(self) ==
    IF self.message.some THEN "  " \o self.message.value
    ELSE IF self.page_input_buffer # <<>>
    THEN "  Go to page: " \o Str(self.page_input_buffer) \o "_"
    ELSE "  [Left / Right] Page  [Up/Down] Sub-page  [0-9] Jump  [v] Toggle view  [q] Quit  [c] Clear cache"

(***************************************************************************)
(* Inputs                                                                  *)
(***************************************************************************)
\* the keys the cache model fetches: the sub-pages of the start page
Pages == {PageMin}
Subs == {1, 2}

\* the instants the wall clock is read at: 299 s and 300 s apart, and later
Instants == {0, TTL - 1, MaxNow}

Statuses == {200, 404}

\* the document of the cache model: a page of two lines (what it returns
\* differs from fetch to fetch by the timestamp)
TextBodies ==
    { <<start_marker, PreOpen, "A", LF, " ", "A", PreClose, end_marker>> }

\* the bodies of the image endpoint: a PNG, and bytes that are no image
ImageBodies == { <<"PNG", "a">>, <<"GIF?">> }

\* a failure to connect, and each status with a body that cannot be read or
\* with each of the bodies
Responses(bodies) ==
    {TransportFailure}
      \cup {Response(TRUE, st, FALSE, <<>>) : st \in Statuses}
      \cup {Response(TRUE, st, TRUE, b) : st \in Statuses, b \in bodies}

(***************************************************************************)
(* State machine of a client and its callers                               *)
(***************************************************************************)
\* HashMap::get as a record: whether the key has an entry, and its instant
Lookup(map, k) ==
    IF k \in DOMAIN map THEN [present |-> TRUE, time |-> map[k].time]
    ELSE [present |-> FALSE, time |-> 0]

NoEntry == [present |-> FALSE, time |-> 0]

\* the record of a call: its arguments, its instant, the response it consumed, what it
\* returned, the URLs it requested, the steps it ran, the entry its key had
\* before it, and whether the call before it was clear_cache
Call(op, page, sub_page, resp, o, entry) ==
    [op |-> op, page |-> page, sub_page |-> sub_page, at |-> now,
     resp |-> IF o.requests = <<>> THEN NoResponse ELSE resp,
     ret |-> o.ret, requests |-> o.requests, steps |-> o.steps,
     entry |-> entry, after_clear |-> last.op = "clear_cache"]

NoCall(op) ==
    [op |-> op, page |-> 0, sub_page |-> 0, at |-> now, resp |-> NoResponse,
     ret |-> Ok(<<>>), requests |-> <<>>, steps |-> <<>>,
     entry |-> NoEntry, after_clear |-> FALSE]

\* history: per form and key, what the latest fetch that went to the network
\* and succeeded returned, and when; forgotten by clear_cache
Remember(map, page, sub_page, o, clock) ==
    IF o.ret.ok /\ o.requests # <<>>
    THEN Insert(map, <<page, sub_page>>, [value |-> o.ret.value, at |-> clock])
    ELSE map

Init ==
    /\ client = NewClient
    /\ now \in Instants
    /\ last = NoCall("new")
    /\ fetched = [text |-> EmptyMap, image |-> EmptyMap]
    /\ app = NewApp
    /\ pc = "main"

FetchPage(page, sub_page, resp) ==
    LET o == FetchPageCall(client, now, page, sub_page, resp) IN
    /\ client' = o.self
    /\ last' = Call("fetch_page", page, sub_page, resp, o,
                     Lookup(client.cache, <<page, sub_page>>))
    /\ fetched' = [fetched EXCEPT !.text = Remember(@, page, sub_page, o, now)]
    /\ UNCHANGED <<now, app, pc>>

FetchImage(page, sub_page, resp) ==
    LET o == FetchImageCall(client, now, page, sub_page, resp) IN
    /\ client' = o.self
    /\ last' = Call("fetch_image", page, sub_page, resp, o,
                     Lookup(client.image_cache, <<page, sub_page>>))
    /\ fetched' = [fetched EXCEPT !.image = Remember(@, page, sub_page, o, now)]
    /\ UNCHANGED <<now, app, pc>>

\* the record of a clear_cache says, as its entry, whether both caches held
\* entries before it
ClearCache ==
    /\ client' = ClearCacheCall(client)
    /\ last' = [NoCall("clear_cache") EXCEPT
                   !.entry.present = client.cache # EmptyMap
                                       /\ client.image_cache # EmptyMap]
    /\ fetched' = [text |-> EmptyMap, image |-> EmptyMap]
    /\ UNCHANGED <<now, app, pc>>

\* time passes
ClockAdvance ==
    /\ \E t \in Instants : t > now /\ now' = t
    /\ UNCHANGED <<client, last, fetched, app, pc>>

\* the system clock is set back
ClockSetBack ==
    /\ \E t \in Instants : t < now /\ now' = t
    /\ UNCHANGED <<client, last, fetched, app, pc>>

Next ==
    \/ \E page \in Pages, sub_page \in Subs, resp \in Responses(TextBodies) :
          FetchPage(page, sub_page, resp)
    \/ \E page \in Pages, sub_page \in Subs, resp \in Responses(ImageBodies) :
          FetchImage(page, sub_page, resp)
    \/ ClearCache
    \/ ClockAdvance
    \/ ClockSetBack

Spec == Init /\ [][Next]_vars

(***************************************************************************)
(* The URLs: both fetches over the whole page range, by a caller that      *)
(* moves one page or one sub-page at a time (the arrow keys of the event   *)
(* loop, main.rs:152-169), the network down or answering 404, so that      *)
(* every call builds its URL and requests it                               *)
(***************************************************************************)
UrlPages == PageMin..PageMax
\* the client takes any u16 sub-page, 0 included
UrlSubs == 0..MaxUrlSub

Unavailable == {TransportFailure, Response(TRUE, 404, FALSE, <<>>)}

\* the key the caller is at
Cursor == IF last.op = "new" THEN <<PageMin, 1>> ELSE <<last.page, last.sub_page>>

Moves == {<<0, 0>>, <<1, 0>>, <<0 - 1, 0>>, <<0, 1>>, <<0, 0 - 1>>}

InitAtZero == Init /\ now = 0

NextUrl ==
    \/ \E m \in Moves, resp \in Unavailable :
          /\ Cursor[1] + m[1] \in UrlPages
          /\ Cursor[2] + m[2] \in UrlSubs
          /\ FetchPage(Cursor[1] + m[1], Cursor[2] + m[2], resp)
    \/ \E m \in Moves, resp \in Unavailable :
          /\ Cursor[1] + m[1] \in UrlPages
          /\ Cursor[2] + m[2] \in UrlSubs
          /\ FetchImage(Cursor[1] + m[1], Cursor[2] + m[2], resp)

SpecUrl == InitAtZero /\ [][NextUrl]_vars

(***************************************************************************)
(* The extraction: fetch_page of one key over every document of at most    *)
(* MaxDocLen tokens, by a caller that clears the cache before it fetches   *)
(* again (the 'c' key of the event loop, main.rs:141-145)                  *)
(***************************************************************************)
Alphabet == {start_marker, end_marker, PreOpen, PreClose, AOpen, AClose, "A", " ", LF}

Docs == UNION {[1..n -> Alphabet] : n \in 0..MaxDocLen}

NextExtract ==
    \/ /\ last.op # "fetch_page"
       /\ \E resp \in Responses(Docs) : FetchPage(PageMin, 1, resp)
    \/ /\ last.op # "clear_cache"
       /\ ClearCache

SpecExtract == InitAtZero /\ [][NextExtract]_vars

(***************************************************************************)
(* State machine of the host: main and the event loop of run_app.  Each    *)
(* key handler is one step; its responses are what the network has for    *)
(* the text request and the image request of the load it makes.            *)
(***************************************************************************)
\* the record of a handled key: the key, the instant, and the load_page
\* call the handler made
Event(key, load) == [op |-> "key", key |-> key, at |-> now, load |-> load]

\* the history after a load: what its calls fetched from the network
RECURSIVE RememberLoad(_, _)
RememberLoad(h, calls) ==
    IF calls = <<>> THEN h
    ELSE LET c == Head(calls) IN
         RememberLoad(IF c.op = "fetch_page"
                      THEN [h EXCEPT !.text = Remember(@, c.page, c.sub_page, c, now)]
                      ELSE [h EXCEPT !.image = Remember(@, c.page, c.sub_page, c, now)],
                      Tail(calls))

\* the step of a handler that gave r
Handle(key, r) ==
    /\ app' = r.app
    /\ client' = r.client
    /\ last' = Event(key, r.load)
    /\ fetched' = RememberLoad(IF r.cleared
                               THEN [text |-> EmptyMap, image |-> EmptyMap]
                               ELSE fetched,
                               r.load.calls)
    /\ UNCHANGED now

\* main (main.rs:107-110): the initial load, then the event loop
Start(rt, ri) ==
    /\ pc = "main"
    /\ Handle("start", LoadPage(app, client, now, 100, 1, rt, ri))
    /\ pc' = "run"

KeyC(rt, ri) ==
    /\ pc = "run"
    /\ Handle("c", OnKeyC(app, client, now, rt, ri))
    /\ UNCHANGED pc

KeyLeft(rt, ri) ==
    /\ pc = "run"
    /\ Handle("Left", OnKeyLeft(app, client, now, rt, ri))
    /\ UNCHANGED pc

KeyRight(rt, ri) ==
    /\ pc = "run"
    /\ Handle("Right", OnKeyRight(app, client, now, rt, ri))
    /\ UNCHANGED pc

KeyUp(rt, ri) ==
    /\ pc = "run"
    /\ Handle("Up", OnKeyUp(app, client, now, rt, ri))
    /\ UNCHANGED pc

\* Down where current_part + 1 fits, or in a build without overflow checks
KeyDown(rt, ri) ==
    /\ pc = "run"
    /\ Handle("Down", OnKeyDown(app, client, now, rt, ri))
    /\ UNCHANGED pc

\* Down at u16::MAX in a build with overflow checks: the addition panics
\* and the event loop is left
KeyDownPanic ==
    /\ pc = "run"
    /\ AddOverflows(app.current_part)
    /\ pc' = "panicked"
    /\ UNCHANGED <<client, now, last, fetched, app>>

KeyDigit(c) ==
    /\ pc = "run"
    /\ Handle("digit", OnKeyDigit(app, client, c))
    /\ UNCHANGED pc

KeyEnter(rt, ri) ==
    /\ pc = "run"
    /\ Handle("Enter", OnKeyEnter(app, client, now, rt, ri))
    /\ UNCHANGED pc

KeyBackspace ==
    /\ pc = "run"
    /\ Handle("Backspace", OnKeyBackspace(app, client))
    /\ UNCHANGED pc

KeyEsc ==
    /\ pc = "run"
    /\ Handle("Esc", OnKeyEsc(app, client))
    /\ UNCHANGED pc

(***************************************************************************)
(* The remote source of the host models: which pages it has, and what it   *)
(* answers for a URL (the network may also be down for any request)        *)
(***************************************************************************)
\* the sub-pages the source has a text page for, and those it has an image
\* for
ServerPages == {<<100, 1>>, <<100, 2>>, <<899, 1>>}
ServerImages == {<<100, 1>>, <<101, 1>>, <<899, 1>>}

\* the document and the image the source serves at a URL
TextAt(url) == <<start_marker, PreOpen, url, PreClose, end_marker>>
ImageAt(url) == <<"PNG", url>>

NotFoundResponse == Response(TRUE, 404, TRUE, <<>>)

TextAnswers(page, part) ==
    LET url == TextUrl(page, part) IN
    {TransportFailure,
     IF \E k \in ServerPages : TextUrl(k[1], k[2]) = url
     THEN Response(TRUE, 200, TRUE, TextAt(url))
     ELSE NotFoundResponse}

ImageAnswers(page, part) ==
    LET url == ImageUrl(page, part) IN
    {TransportFailure,
     IF \E k \in ServerImages : ImageUrl(k[1], k[2]) = url
     THEN Response(TRUE, 200, TRUE, ImageAt(url))
     ELSE NotFoundResponse}

(***************************************************************************)
(* The host with a user who stays on the first and the last two pages and  *)
(* their first two sub-pages, and who types one number, digit by digit,    *)
(* that is below the range, in it, above it and too large for u16 on the   *)
(* way                                                                     *)
(***************************************************************************)
AppPages == {PageMin, PageMin + 1, PageMax - 1, PageMax}
AppParts == {1, 2}
TypedNumber == <<"8", "9", "9", "9", "9">>

\* the key the buffer is about to get is the next digit of the number
Typing(c) ==
    /\ Len(app.page_input_buffer) < Len(TypedNumber)
    /\ Append(app.page_input_buffer, c)
         = SubSeq(TypedNumber, 1, Len(app.page_input_buffer) + 1)

\* the handlers with what the source has for the page and part of the load
AnsweredC ==
    \E rt \in TextAnswers(app.current_page, app.current_part),
       ri \in ImageAnswers(app.current_page, app.current_part) : KeyC(rt, ri)

AnsweredLeft ==
    \E rt \in TextAnswers(app.current_page - 1, 1),
       ri \in ImageAnswers(app.current_page - 1, 1) : KeyLeft(rt, ri)

AnsweredRight ==
    \E rt \in TextAnswers(app.current_page + 1, 1),
       ri \in ImageAnswers(app.current_page + 1, 1) : KeyRight(rt, ri)

AnsweredUp ==
    \E rt \in TextAnswers(app.current_page, app.current_part - 1),
       ri \in ImageAnswers(app.current_page, app.current_part - 1) : KeyUp(rt, ri)

AnsweredDown ==
    \E rt \in TextAnswers(app.current_page, (app.current_part + 1) % (U16Max + 1)),
       ri \in ImageAnswers(app.current_page, (app.current_part + 1) % (U16Max + 1)) :
          KeyDown(rt, ri)

AnsweredEnter ==
    \E rt \in TextAnswers(DigitsValue(app.page_input_buffer), 1),
       ri \in ImageAnswers(DigitsValue(app.page_input_buffer), 1) : KeyEnter(rt, ri)

NextApp ==
    \/ \E rt \in TextAnswers(100, 1), ri \in ImageAnswers(100, 1) : Start(rt, ri)
    \/ AnsweredC
    \/ (app.current_page = PageMin \/ app.current_page - 1 \in AppPages) /\ AnsweredLeft
    \/ (app.current_page = PageMax \/ app.current_page + 1 \in AppPages) /\ AnsweredRight
    \/ AnsweredUp
    \/ app.current_part + 1 \in AppParts /\ AnsweredDown
    \/ \E c \in {"8", "9"} : Typing(c) /\ KeyDigit(c)
    \/ AnsweredEnter
    \/ KeyBackspace
    \/ KeyEsc

SpecApp == InitAtZero /\ [][NextApp]_vars

(***************************************************************************)
(* The host with the network down and a user who keeps Down pressed: the   *)
(* other keys are pressed on the first two sub-pages only (and on          *)
(* sub-page 0)                                                             *)
(***************************************************************************)
Unreachable == TransportFailure

NextParts ==
    \/ Start(Unreachable, Unreachable)
    \/ KeyDown(Unreachable, Unreachable)
    \/ KeyDownPanic
    \/ app.current_part <= 2 /\ KeyUp(Unreachable, Unreachable)
    \/ app.current_part <= 2 /\ KeyC(Unreachable, Unreachable)
    \/ app.current_part <= 2 /\ KeyLeft(Unreachable, Unreachable)
    \/ app.current_part <= 2 /\ app.current_page + 1 \in AppPages /\ KeyRight(Unreachable, Unreachable)

SpecParts == InitAtZero /\ [][NextParts]_vars

(***************************************************************************)
(* Properties                                                              *)
(***************************************************************************)
IsFetchOp(op) == op \in {"fetch_page", "fetch_image"}
KeyOf(call) == <<call.page, call.sub_page>>
CacheOf(c, op) == IF op = "fetch_page" THEN c.cache ELSE c.image_cache
FetchedOf(h, op) == IF op = "fetch_page" THEN h.text ELSE h.image

\* a step that is a call of fetch_page or fetch_image
FetchStep == now' = now /\ IsFetchOp(last'.op)

\* an entry of instant `time` is inside the 5 minute window at `clock`
InWindow(time, clock) == clock - time < TTL

\* C1 as claimed: once a fetch for a key has succeeded, every later fetch of
\* the same form for that key made while now - capture_instant < 5 minutes,
\* with no clear_cache in between, makes no network request and returns the
\* value the first fetch returned.
C1_AsClaimed ==
    [][FetchStep =>
         LET k == KeyOf(last')
             first == FetchedOf(fetched, last'.op)
         IN  (k \in DOMAIN first /\ InWindow(first[k].at, now)) =>
                /\ last'.requests = <<>>
                /\ last'.ret = Ok(first[k].value)]_vars

\* C1 amended: the same for every later fetch made while
\* 0 <= now - capture_instant < 5 minutes, the capture instant being that of
\* the latest fetch of the key that went to the network: a clock set back
\* before the capture instant makes the entry count as expired.
C1_Freshness ==
    [][FetchStep =>
         LET k == KeyOf(last')
             first == FetchedOf(fetched, last'.op)
         IN  (k \in DOMAIN first /\ now >= first[k].at /\ InWindow(first[k].at, now)) =>
                /\ last'.requests = <<>>
                /\ last'.ret = Ok(first[k].value)
                /\ client' = client]_vars

\* a fetch_page answered from the cache 299 s after the fetch that filled it
C1_Witness ==
    /\ last.op = "fetch_page"
    /\ last.requests = <<>>
    /\ KeyOf(last) \in DOMAIN fetched.text
    /\ last.at - fetched.text[KeyOf(last)].at = TTL - 1
    /\ last.ret = Ok(fetched.text[KeyOf(last)].value)

\* C2: a fetch_page or fetch_image that returns an error leaves both caches
\* exactly as they were: same keys, same values, same capture instants.
C2_FailuresKeepCaches ==
    [][(FetchStep /\ ~last'.ret.ok) => client' = client]_vars

\* an image that does not decode, fetched for a key whose expired entry is
\* still there afterwards
C2_Witness ==
    /\ last.op = "fetch_image"
    /\ ~last.ret.ok
    /\ last.ret.fmt = "Failed to decode image"
    /\ last.entry.present
    /\ KeyOf(last) \in DOMAIN client.image_cache
    /\ client.image_cache[KeyOf(last)].time = last.entry.time
    /\ KeyOf(last) \in DOMAIN client.cache

\* a fetch for the key at this instant would be answered from the cache
ServedFromCache(c, op, k, clock) ==
    /\ k \in DOMAIN CacheOf(c, op)
    /\ \A resp \in Responses(IF op = "fetch_page" THEN TextBodies ELSE ImageBodies) :
          LET o == IF op = "fetch_page"
                   THEN FetchPageCall(c, clock, k[1], k[2], resp)
                   ELSE FetchImageCall(c, clock, k[1], k[2], resp)
          IN  o.requests = <<>> /\ o.ret = Ok(CacheOf(c, op)[k].data)

\* C3 as claimed: after a fetch for a key has failed while the key's entry
\* was older than the window, the entry is still servable: the client
\* returns it for the key.
C3_AsClaimed ==
    (/\ IsFetchOp(last.op)
     /\ ~last.ret.ok
     /\ last.entry.present
     /\ last.at - last.entry.time >= TTL
     /\ now = last.at)
        => ServedFromCache(client, last.op, KeyOf(last), now)

\* C3 amended: after a fetch for a key has failed while the key's entry was
\* older than the window, the entry is still stored, unchanged, but it is
\* not served: the call returned the error after one request, and a fetch
\* for the key at that instant goes to the network again.
C3_StaleKeptNotServed ==
    [][(/\ FetchStep
        /\ ~last'.ret.ok
        /\ KeyOf(last') \in DOMAIN CacheOf(client, last'.op)
        /\ now - CacheOf(client, last'.op)[KeyOf(last')].time >= TTL)
          => /\ KeyOf(last') \in DOMAIN CacheOf(client', last'.op)
             /\ CacheOf(client', last'.op)[KeyOf(last')]
                  = CacheOf(client, last'.op)[KeyOf(last')]
             /\ Len(last'.requests) = 1
             /\ ~ServedFromCache(client', last'.op, KeyOf(last'), now')]_vars

\* a fetch_page that failed 300 s after the entry was captured, the entry
\* still in the cache
C3_Witness ==
    /\ last.op = "fetch_page"
    /\ ~last.ret.ok
    /\ last.entry.present
    /\ last.at - last.entry.time = TTL
    /\ KeyOf(last) \in DOMAIN client.cache
    /\ client.cache[KeyOf(last)].time = last.entry.time

\* what the response a call consumed holds: the page parse_html makes of the
\* body, or the image the bytes decode to
NewlyFetched(call) ==
    IF call.op = "fetch_page"
    THEN ParseHtml(call.resp.body, call.page, call.sub_page, call.at)
    ELSE LoadFromMemory(call.resp.body)

\* C4: a fetch for a key whose entry is no longer fresh (now - capture
\* instant >= 300 s, exactly 300 s included) makes exactly one network
\* request, and when it succeeds it returns the newly fetched value.
C4_Expiry ==
    [][FetchStep =>
         LET k == KeyOf(last')
             c == CacheOf(client, last'.op)
         IN  (k \in DOMAIN c /\ now - c[k].time >= TTL) =>
                /\ Len(last'.requests) = 1
                /\ last'.ret.ok => last'.ret = NewlyFetched(last')]_vars

\* a fetch_page exactly 300 s after the capture that went to the network and
\* returned a page stamped with the instant of the call, not of the entry
C4_Witness ==
    /\ last.op = "fetch_page"
    /\ last.entry.present
    /\ last.at - last.entry.time = TTL
    /\ Len(last.requests) = 1
    /\ last.ret.ok
    /\ last.ret.value.timestamp = FormatHMS(last.at)
    /\ last.ret.value.timestamp # FormatHMS(last.entry.time)

\* C5: fetch_page, successful or not, leaves the image cache unchanged, and
\* fetch_image, successful or not, leaves the text cache unchanged.
C5_Independence ==
    [][/\ (now' = now /\ last'.op = "fetch_page")
            => client'.image_cache = client.image_cache
       /\ (now' = now /\ last'.op = "fetch_image")
            => client'.cache = client.cache]_vars

\* after a successful fetch_page of a key: the key has a text entry and an
\* older image entry, and another key has an image entry and no text entry
C5_Witness ==
    /\ last.op = "fetch_page"
    /\ last.ret.ok
    /\ Len(last.requests) = 1
    /\ KeyOf(last) \in DOMAIN client.cache
    /\ KeyOf(last) \in DOMAIN client.image_cache
    /\ client.image_cache[KeyOf(last)].time < client.cache[KeyOf(last)].time
    /\ \E k \in DOMAIN client.image_cache : k \notin DOMAIN client.cache

\* C6: the fetch_page or fetch_image that comes next after clear_cache, for
\* whatever key, makes a network request.
C6_ClearThenFetch ==
    (IsFetchOp(last.op) /\ last.after_clear) => Len(last.requests) = 1

\* a fetch_image right after clear_cache that went to the network
C6_Witness ==
    /\ last.op = "fetch_image"
    /\ last.after_clear
    /\ ~last.entry.present
    /\ last.requests = <<ImageUrl(last.page, last.sub_page)>>
    /\ last.ret.ok

\* C7: a call of fetch_page or fetch_image makes no network request when it
\* finds a fresh entry and exactly one otherwise; a call that fails has made
\* one request, never two.
C7_AtMostOneRequest ==
    IsFetchOp(last.op) =>
        /\ Len(last.requests) \in {0, 1}
        /\ Len(last.requests) = 0 <=>
              (/\ last.entry.present
               /\ last.at >= last.entry.time
               /\ InWindow(last.entry.time, last.at))
        /\ ~last.ret.ok => Len(last.requests) = 1

\* a fetch_image that could not connect: one request, an error
C7_Witness ==
    /\ last.op = "fetch_image"
    /\ last.resp = TransportFailure
    /\ ~last.ret.ok
    /\ last.requests = <<ImageUrl(last.page, last.sub_page)>>

\* the error kind of the spec an anyhow message of the client stands for
ErrorKind(e) ==
    CASE e.fmt \in {"Page {}.{} not found", "Image for page {}.{} not found"} -> "NotFound"
      [] e.fmt \in {"Failed to fetch page", "Failed to fetch image"} -> "TransportError"
      [] e.fmt \in {"Failed to read response", "Failed to read image response"} -> "ReadError"
      [] e.fmt = "Failed to decode image" -> "DecodeError"
      [] OTHER -> "Other"

\* the steps that read, parse or decode a body
BodySteps == {"text", "bytes", "parse_html", "load_from_memory"}

\* C8: for both fetches a response with a status outside 200..299 gives the
\* NotFound error with the requested page and sub_page, the body not read,
\* parsed or decoded; bytes of a 2xx response that do not decode give
\* DecodeError; a transport failure gives TransportError; no value is
\* returned in any of these cases.
C8_ErrorMapping ==
    (IsFetchOp(last.op) /\ last.requests # <<>>) =>
        /\ ~last.resp.sent =>
              ~last.ret.ok /\ ErrorKind(last.ret) = "TransportError"
        /\ (last.resp.sent /\ ~(last.resp.status \in 200..299)) =>
              /\ ~last.ret.ok
              /\ ErrorKind(last.ret) = "NotFound"
              /\ last.ret.args = <<last.page, last.sub_page>>
              /\ \A i \in 1..Len(last.steps) : last.steps[i] \notin BodySteps
        /\ (/\ last.op = "fetch_image"
            /\ last.resp.sent
            /\ last.resp.status \in 200..299
            /\ last.resp.readable
            /\ (last.resp.body = <<>> \/ Head(last.resp.body) # "PNG")) =>
              ~last.ret.ok /\ ErrorKind(last.ret) = "DecodeError"

\* a fetch_page answered 404 with a well-formed page as its body
C8_Witness ==
    /\ last.op = "fetch_page"
    /\ last.resp.status = 404
    /\ last.resp.readable
    /\ last.resp.body \in TextBodies
    /\ ~last.ret.ok
    /\ last.ret.fmt = "Page {}.{} not found"
    /\ last.ret.args = <<PageMin, 2>>

\* C9: for a sub_page >= 1, fetch_page requests {base}?pagina={page} when
\* sub_page is 1 and {base}?pagina={page}&sottopagina={sub_page} otherwise,
\* and fetch_image requests {image_base}/16_9_page-{page}.png when sub_page
\* is 1 and {image_base}/16_9_page-{page}.{sub_page}.png otherwise.
C9_UrlBranching ==
    (IsFetchOp(last.op) /\ last.requests # <<>> /\ last.sub_page >= 1) =>
        LET page == Dec(last.page)
            sub == Dec(last.sub_page)
        IN  /\ (last.op = "fetch_page" /\ last.sub_page = 1) =>
                  last.requests = <<base_url \o "?pagina=" \o page>>
            /\ (last.op = "fetch_page" /\ last.sub_page # 1) =>
                  last.requests =
                     <<base_url \o "?pagina=" \o page \o "&sottopagina=" \o sub>>
            /\ (last.op = "fetch_image" /\ last.sub_page = 1) =>
                  last.requests =
                     <<image_base_url \o "/16_9_page-" \o page \o ".png">>
            /\ (last.op = "fetch_image" /\ last.sub_page # 1) =>
                  last.requests =
                     <<image_base_url \o "/16_9_page-" \o page \o "." \o sub \o ".png">>

\* fetch_page of (101, 2) has requested the URL with the sub-page parameter
C9_Witness ==
    /\ last.op = "fetch_page"
    /\ last.page = 101
    /\ last.sub_page = 2
    /\ last.requests =
         <<"https://www.servizitelevideo.rai.it/televideo/pub/solotesto.jsp?pagina=101&sottopagina=2">>

\* the region holds no <pre> start tag
NoPre(region) == \A i \in 1..Len(region) : region[i] # PreOpen

\* C10: a fetch_page that got a readable 2xx body never fails, and when the
\* processed region of the body has no <pre> block, or the block gives no
\* lines, it returns the one line "(No content found on this page)", and
\* that page is the entry of the key in the text cache.
C10_ExtractionDegrade ==
    (/\ last.op = "fetch_page"
     /\ last.requests # <<>>
     /\ last.resp.sent
     /\ last.resp.status \in 200..299
     /\ last.resp.readable) =>
        /\ last.ret.ok
        /\ LET region == ContentSection(last.resp.body) IN
           (NoPre(region) \/ ExtractLines(region) = <<>>) =>
              /\ last.ret.value.lines = <<"(No content found on this page)">>
              /\ KeyOf(last) \in DOMAIN client.cache
              /\ client.cache[KeyOf(last)] = [data |-> last.ret.value, time |-> last.at]

\* a page whose only <pre> block is outside the markers: the placeholder
\* page is returned and cached
C10_Witness ==
    /\ last.op = "fetch_page"
    /\ last.resp.status = 200
    /\ last.resp.body = <<PreOpen, "A", start_marker, end_marker>>
    /\ last.ret.ok
    /\ last.ret.value.lines = <<Placeholder>>
    /\ client.cache[KeyOf(last)].data.lines = <<Placeholder>>

\* the output lines joined with line breaks
RECURSIVE JoinLines(_)
JoinLines(lines) ==
    IF lines = <<>> THEN ""
    ELSE IF Len(lines) = 1 THEN lines[1]
    ELSE lines[1] \o LF \o JoinLines(Tail(lines))

\* the text of the preformatted block: the characters of the first <pre>
\* element of the processed region, as parsing the region gives them
BlockText(html) == TextContent(PreElementHtml(ParseFragment(ContentSection(html))))

\* C11: the lines a fetch_page returns for a body with a preformatted block
\* of some text keep every empty line (leading, interior, trailing) and
\* every space of the block: joined with line breaks they give back the
\* text of the block.
C11_LayoutPreserved ==
    (/\ last.op = "fetch_page"
     /\ last.requests # <<>>
     /\ last.ret.ok
     /\ BlockText(last.resp.body) # <<>>) =>
        JoinLines(last.ret.value.lines) = Str(BlockText(last.resp.body))

\* a step that is a call of clear_cache
ClearStep == now' = now /\ last'.op = "clear_cache"

\* C12: after clear_cache, whatever the client held, the text cache and the
\* image cache are both empty and the call has not failed; a clear_cache
\* right after a clear_cache leaves the client as the first one left it.
C12_ClearEmptiesBoth ==
    [][ClearStep =>
         /\ client'.cache = EmptyMap
         /\ client'.image_cache = EmptyMap
         /\ last'.ret.ok
         /\ last.op = "clear_cache" => client' = client]_vars

\* a clear_cache that found entries in both caches and left none
C12_Witness ==
    /\ last.op = "clear_cache"
    /\ last.entry.present
    /\ client.cache = EmptyMap
    /\ client.image_cache = EmptyMap

\* the positions of a document that hold the token
Occurrences(html, tok) == {i \in 1..Len(html) : html[i] = tok}

\* the smallest member of a set of positions
First(S) == CHOOSE i \in S : \A j \in S : i <= j

\* a fetch_page that parsed the body of its response
ParsedBody ==
    /\ last.op = "fetch_page"
    /\ last.requests # <<>>
    /\ last.ret.ok

\* C15 as claimed: when the document holds both markers, the lines returned
\* are those of the part of the document between the start marker and the
\* end marker, and when either marker is missing they are those of the
\* entire document.
C15_AsClaimed ==
    ParsedBody =>
        LET html == last.resp.body
            starts == Occurrences(html, start_marker)
            ends == Occurrences(html, end_marker)
            region == IF starts # {} /\ ends # {}
                      THEN SubSeq(html, First(starts) + 1, First(ends) - 1)
                      ELSE html
        IN  last.ret.value.lines = OrPlaceholder(ExtractLines(region))

\* C15 amended: when the document holds the start marker and, after it, the
\* end marker, the lines returned are those of the part between the first
\* start marker and the first end marker after it; otherwise (a marker
\* missing, or no end marker after the start marker) they are those of the
\* entire document.
C15_MarkerNarrowing ==
    ParsedBody =>
        LET html == last.resp.body
            starts == Occurrences(html, start_marker)
            ends == IF starts = {} THEN {}
                    ELSE {i \in Occurrences(html, end_marker) : i > First(starts)}
            region == IF ends # {}
                      THEN SubSeq(html, First(starts) + 1, First(ends) - 1)
                      ELSE html
        IN  last.ret.value.lines = OrPlaceholder(ExtractLines(region))

\* a document whose <pre> block opens between the markers and has its text
\* after the end marker: the text is not in the lines returned
C15_Witness ==
    /\ ParsedBody
    /\ last.resp.body = <<start_marker, PreOpen, end_marker, "A">>
    /\ last.ret.value.lines = <<Placeholder>>
    /\ ExtractLines(last.resp.body) = <<"A">>

\* C16: a fetch that goes to the network and succeeds for a key that has an
\* entry leaves the cache with the same keys, one entry for the key: the
\* value the fetch returned, captured at the instant of the fetch; from
\* that instant the entry is served for a full window (at the instant and
\* 299 s later) and no longer 300 s later.
C16_ReplaceOnWrite ==
    [][(/\ FetchStep
        /\ last'.ret.ok
        /\ last'.requests # <<>>
        /\ KeyOf(last') \in DOMAIN CacheOf(client, last'.op))
          => LET k == KeyOf(last')
                 op == last'.op
             IN  /\ DOMAIN CacheOf(client', op) = DOMAIN CacheOf(client, op)
                 /\ CacheOf(client', op)[k] = [data |-> last'.ret.value, time |-> now]
                 /\ \A x \in DOMAIN CacheOf(client, op) \ {k} :
                       CacheOf(client', op)[x] = CacheOf(client, op)[x]
                 /\ ServedFromCache(client', op, k, now)
                 /\ ServedFromCache(client', op, k, now + TTL - 1)
                 /\ ~ServedFromCache(client', op, k, now + TTL)]_vars

\* a fetch_image that replaced an expired entry: the entry now holds the
\* image it returned and the instant of the call
C16_Witness ==
    /\ last.op = "fetch_image"
    /\ last.entry.present
    /\ last.at - last.entry.time >= TTL
    /\ last.ret.ok
    /\ Len(last.requests) = 1
    /\ client.image_cache[KeyOf(last)] = [data |-> last.ret.value, time |-> last.at]
    /\ client.image_cache[KeyOf(last)].time # last.entry.time

\* the entries of `before` are all in `after`, and unchanged but for the
\* entry of the key a successful fetch of this form has just written
KeptBut(before, after, written) ==
    \A k \in DOMAIN before :
        /\ k \in DOMAIN after
        /\ after[k] # before[k] => k \in written

\* C17: no step but clear_cache removes a key from either cache: time
\* passing, the clock set back, cache hits, failed fetches and fetches of
\* other keys leave every entry stored and unchanged; an entry changes only
\* when a successful fetch of its form for its key overwrites it.
C17_NoSweeping ==
    [][~ClearStep =>
         /\ KeptBut(client.cache, client'.cache,
                    IF now' = now /\ last'.op = "fetch_page" /\ last'.ret.ok
                    THEN {KeyOf(last')} ELSE {})
         /\ KeptBut(client.image_cache, client'.image_cache,
                    IF now' = now /\ last'.op = "fetch_image" /\ last'.ret.ok
                    THEN {KeyOf(last')} ELSE {})]_vars

\* a fetch_image of one key has failed while the expired image of another
\* key is still stored
C17_Witness ==
    /\ last.op = "fetch_image"
    /\ ~last.ret.ok
    /\ \E k \in DOMAIN client.image_cache :
          /\ k # KeyOf(last)
          /\ last.at - client.image_cache[k].time >= TTL
          /\ now = last.at

\* C13: whatever keys have been handled, app.current_part is at least 1 and
\* so is the sub_page of the load_page call the last handler made and of
\* the fetch_page and fetch_image calls in it, Down pressed again and again
\* included (current_part + 1 on u16).
C13_SubPageAtLeastOne ==
    pc # "main" =>
        /\ app.current_part >= 1
        /\ (last.op = "key" /\ last.load.called) =>
              /\ last.load.part >= 1
              /\ \A i \in 1..Len(last.load.calls) : last.load.calls[i].sub_page >= 1

\* the number in the input buffer is not a u16 or not a page of the range
Rejected(buf) ==
    buf # <<>> /\ (DigitsValue(buf) > 65535 \/ DigitsValue(buf) \notin 100..899)

\* C14: in every state of the event loop 100 <= current_page <= 899 and the
\* load_page call of the last handler (the initial load, Left, Right, Up,
\* Down, Enter, 'c') passed a page of 100..899; and Enter on a number that
\* is outside the range or does not fit a u16 makes no load_page call,
\* leaves the client as it was, and leaves current_page, current_part and
\* the content and image on display unchanged.
C14_PageRange ==
    /\ [](/\ app.current_page \in 100..899
          /\ (last.op = "key" /\ last.load.called) =>
                /\ last.load.page \in 100..899
                /\ \A i \in 1..Len(last.load.calls) :
                      last.load.calls[i].page \in 100..899)
    /\ [][(/\ pc' = pc
           /\ last'.op = "key"
           /\ last'.key = "Enter"
           /\ Rejected(app.page_input_buffer))
             => /\ ~last'.load.called
                /\ client' = client
                /\ app'.current_page = app.current_page
                /\ app'.current_part = app.current_part
                /\ app'.content = app.content
                /\ app'.image_state = app.image_state]_vars

\* Enter on an out-of-range number with page 899.2 on display after a
\* failed load: the content is still that of another page
C14_Witness ==
    /\ last.op = "key"
    /\ last.key = "Enter"
    /\ ~last.load.called
    /\ app.message = Some("Page must be between 100-899")
    /\ app.page_input_buffer = <<>>
    /\ app.current_page = 899
    /\ app.current_part = 2
    /\ app.content.some

\* C18: in every state of the event loop (the initial load_page done), when
\* app.error is None the content is the text page of exactly (current_page,
\* current_part), holding the lines the source has at that URL, and the
\* image state was built from the image the source has for exactly
\* (current_page, current_part).
C18_DisplayMatchesHeader ==
    (pc = "run" /\ ~app.error.some) =>
        /\ app.content.some
        /\ app.content.value.page_number = app.current_page
        /\ app.content.value.sub_page = app.current_part
        /\ app.content.value.lines = <<TextUrl(app.current_page, app.current_part)>>
        /\ app.image_state.some
        /\ app.image_state.value =
              NewResizeProtocol([pixels |-> <<ImageUrl(app.current_page,
                                                       app.current_part)>>])

\* page 899 entered after page 100 was on display, loaded with no error:
\* the text and the image are those of 899.1
C18_Witness ==
    /\ pc = "run"
    /\ last.op = "key"
    /\ last.key = "Enter"
    /\ last.load.called
    /\ ~app.error.some
    /\ app.current_page = 899
    /\ app.content.value.page_number = 899
    /\ app.image_state.value.source.pixels = <<ImageUrl(899, 1)>>
    /\ <<100, 1>> \in DOMAIN client.cache
    /\ <<100, 1>> \in DOMAIN client.image_cache

\* a step of a handler that called load_page
LoadStep == last'.op = "key" /\ last'.load.called /\ pc' # "panicked"

\* the errors load_page reports for a failed text fetch and for a failed
\* image fetch of (page, part)
TextErrors(page, part) ==
    {"Text: Failed to fetch page",
     "Text: Failed to read response",
     "Text: Page " \o Dec(page) \o "." \o Dec(part) \o " not found"}

ImageErrors(page, part) ==
    {"Image: Failed to fetch image",
     "Image: Failed to read image response",
     "Image: Failed to decode image",
     "Image: Image for page " \o Dec(page) \o "." \o Dec(part) \o " not found"}

\* C19: a load_page(page, part) calls fetch_page and then fetch_image for
\* (page, part), the image fetch also when the text fetch failed (an image
\* it gets is in the image cache afterwards), and sets current_page and
\* current_part to (page, part) whatever they return; a failed text fetch
\* leaves the content as it was, a failed image fetch leaves image_state
\* as it was; the error is the text error when the text fetch failed, the
\* image error when only the image fetch failed, and None when none did.
C19_LoadPageOutcomes ==
    [][LoadStep =>
         LET load == last'.load
             text == load.calls[1]
             image == load.calls[Len(load.calls)]
         IN  /\ Len(load.calls) = 2
             /\ text.op = "fetch_page" /\ image.op = "fetch_image"
             /\ <<text.page, text.sub_page>> = <<load.page, load.part>>
             /\ <<image.page, image.sub_page>> = <<load.page, load.part>>
             /\ image.ret.ok => <<load.page, load.part>> \in DOMAIN client'.image_cache
             /\ app'.current_page = load.page
             /\ app'.current_part = load.part
             /\ IF text.ret.ok
                THEN app'.content = Some(text.ret.value)
                ELSE app'.content = app.content
             /\ IF image.ret.ok
                THEN app'.image_state = Some(NewResizeProtocol(image.ret.value))
                ELSE app'.image_state = app.image_state
             /\ ~text.ret.ok =>
                   /\ app'.error.some
                   /\ app'.error.value \in TextErrors(load.page, load.part)
             /\ (text.ret.ok /\ ~image.ret.ok) =>
                   /\ app'.error.some
                   /\ app'.error.value \in ImageErrors(load.page, load.part)
             /\ (text.ret.ok /\ image.ret.ok) => ~app'.error.some]_vars

\* Down to 100.2 with the text request failing and the image missing: the
\* error is the text error, the content and the image of 100.1 are kept
C19_Witness ==
    /\ last.op = "key"
    /\ last.key = "Down"
    /\ last.load.called
    /\ ~last.load.calls[1].ret.ok
    /\ ~last.load.calls[2].ret.ok
    /\ Len(last.load.calls[2].requests) = 1
    /\ app.error = Some("Text: Failed to fetch page")
    /\ <<app.current_page, app.current_part>> = <<100, 2>>
    /\ app.content.some
    /\ app.content.value.sub_page = 1
    /\ app.image_state.some
    /\ app.image_state.value.source.pixels = <<ImageUrl(100, 1)>>

\* the last key handled was 'c' (without Control): the frame drawn next
\* shows the App of this state
AfterKeyC == pc = "run" /\ last.op = "key" /\ last.key = "c"

\* C20: after the 'c' key is handled the caches hold nothing captured
\* before it, the reload of (current_page, current_part) has made a network
\* request for the text and one for the image, and app.message is
\* "Cache cleared!", so that the footer of the next frame shows it.
C20_ClearFeedback ==
    AfterKeyC =>
        /\ last.load.called
        /\ <<last.load.page, last.load.part>> = <<app.current_page, app.current_part>>
        /\ \A i \in 1..Len(last.load.calls) : Len(last.load.calls[i].requests) = 1
        /\ DOMAIN client.cache \subseteq {<<app.current_page, app.current_part>>}
        /\ DOMAIN client.image_cache \subseteq {<<app.current_page, app.current_part>>}
        /\ app.message = Some("Cache cleared!")
        /\ FooterText(app) = "  Cache cleared!"

====
